---------------------------- MODULE Spec2Model ----------------------------
(***************************************************************************)
(* A model of the retrieval subsystem of the requirements-analysis         *)
(* platform: token based chunking (src/document_processing/chunking.py),   *)
(* the document processing pipeline (src/document_processing/pipeline.py)  *)
(* and the hybrid vector+keyword retriever (src/rag/hybrid_retrieval.py).  *)
(*                                                                         *)
(* Six specifications share the module's variables:                        *)
(*   SpecChunk  one TokenTextSplitter and one _split_by_tokens call, its   *)
(*              while loop taken one iteration per step;                   *)
(*   SpecBatch  DocumentProcessingPipeline.process_document calls, each    *)
(*              split_documents iteration one step;                        *)
(*   SpecRetr   one HybridRetriever: add_documents and retrieve calls;     *)
(*   SpecRerank Reranker.rerank calls;                                     *)
(*   SpecIndex  the upload, index and delete routes of the documents API;  *)
(*   SpecConc   an add_documents call overlapping a keyword search.        *)
(***************************************************************************)
EXTENDS Integers, Sequences, FiniteSets, TLC

\* ------------------------------------------------------------------ bounds
MaxTextLen == 6      \* tokens in a text handed to _split_by_tokens
MaxChunkSize == 4    \* largest chunk_size tried
MaxOverlap == 3      \* largest chunk_overlap tried
MaxChunks == 5       \* loop iterations followed before the model stops a run

\* an absent object (Python's None)
None == [none |-> TRUE]
\* an absent string
NoId == "None"

Max(S) == CHOOSE x \in S : \A y \in S : y <= x
Min2(a, b) == IF a <= b THEN a ELSE b

\* ------------------------------------------------- the tokenizer oracle
(***************************************************************************)
(* self.encoding (tiktoken) is an external oracle.  It is modelled by a    *)
(* small byte-pair style vocabulary: a token is a piece of text, decode    *)
(* concatenates the pieces and encode splits a text greedily into the      *)
(* longest pieces, a space joining the word that follows it.               *)
(***************************************************************************)
Vocab == {"W", "SW", "DOT", "NL"}

Piece(tok) ==
    CASE tok = "W" -> <<"a">>
      [] tok = "SW" -> <<" ", "a">>
      [] tok = "DOT" -> <<".">>
      [] tok = "NL" -> <<"\n">>
      [] tok = "SP" -> <<" ">>

RECURSIVE Decode(_)
Decode(toks) ==
    IF toks = <<>> THEN <<>> ELSE Piece(Head(toks)) \o Decode(Tail(toks))

TokenOfChar(c) ==
    CASE c = "a" -> "W"
      [] c = "." -> "DOT"
      [] c = "\n" -> "NL"
      [] OTHER -> "SP"

RECURSIVE EncodeFrom(_, _)
EncodeFrom(text, i) ==
    IF i > Len(text) THEN <<>>
    ELSE IF text[i] = " " /\ i < Len(text) /\ text[i + 1] = "a"
         THEN <<"SW">> \o EncodeFrom(text, i + 2)
         ELSE <<TokenOfChar(text[i])>> \o EncodeFrom(text, i + 1)

Encode(text) == EncodeFrom(text, 1)

\* _count_tokens
CountTokens(text) == Len(Encode(text))

TokenSeqs(n) == UNION {[1..m -> Vocab] : m \in 0..n}
\* a three sentence document, "a a. a a. a a.": nine tokens
SentenceDocument ==
    Decode(<<"W", "SW", "DOT", "SW", "SW", "DOT", "SW", "SW", "DOT">>)
Texts == {Decode(ts) : ts \in TokenSeqs(MaxTextLen)} \cup {SentenceDocument}

\* ------------------------------------------------------ _adjust_boundary
\* str.find / str.rfind: 0-based index of the first / last occurrence, -1 if none
Occurrences(text, sep) ==
    {i \in 0..(Len(text) - Len(sep)) : SubSeq(text, i + 1, i + Len(sep)) = sep}
Find(text, sep) ==
    IF Occurrences(text, sep) = {} THEN -1
    ELSE CHOOSE i \in Occurrences(text, sep) : \A j \in Occurrences(text, sep) : i <= j
RFind(text, sep) ==
    IF Occurrences(text, sep) = {} THEN -1 ELSE Max(Occurrences(text, sep))

StartSeps == << <<"\n", "\n">>, <<"\n">>, <<".", " ">>, <<"!", " ">>, <<"?", " ">> >>
EndSeps == << <<".", " ">>, <<"!", " ">>, <<"?">>, <<"\n", "\n">>, <<"\n">> >>

RECURSIVE AdjustStartFrom(_, _)
AdjustStartFrom(text, n) ==
    IF n > Len(StartSeps) THEN text
    ELSE IF Find(text, StartSeps[n]) > 0
         THEN SubSeq(text, Find(text, StartSeps[n]) + Len(StartSeps[n]) + 1, Len(text))
         ELSE AdjustStartFrom(text, n + 1)

RECURSIVE AdjustEndFrom(_, _)
AdjustEndFrom(text, n) ==
    IF n > Len(EndSeps) THEN text
    ELSE IF RFind(text, EndSeps[n]) > 0
         THEN SubSeq(text, 1, RFind(text, EndSeps[n]) + Len(EndSeps[n]))
         ELSE AdjustEndFrom(text, n + 1)

AdjustBoundary(text, is_start) ==
    IF is_start THEN AdjustStartFrom(text, 1) ELSE AdjustEndFrom(text, 1)

\* ------------------------------------------------- TokenTextSplitter.__init__
\* `x or default`: a falsy argument (0) is replaced by the configured value
OrDefault(arg, dflt) == IF arg # 0 THEN arg ELSE dflt

\* RecursiveCharacterTextSplitter(chunk_size * 4, chunk_overlap * 4): the library's
\* constructor raises ValueError when the overlap is larger than the chunk size
SplitterRejects(chunk_size, chunk_overlap) == chunk_overlap * 4 > chunk_size * 4

NewSplitter(chunk_size, chunk_overlap, settings) ==
    [chunk_size |-> OrDefault(chunk_size, settings.chunk_size),
     chunk_overlap |-> OrDefault(chunk_overlap, settings.chunk_overlap)]

SettingsSet == [chunk_size : 1..MaxChunkSize, chunk_overlap : 0..MaxOverlap]

\* ------------------------------------------------- _split_by_tokens, one iteration
WindowEnd(sp, toks, start) == Min2(start + sp.chunk_size, Len(toks))

WindowText(sp, toks, start) ==
    LET chunk_text == Decode(SubSeq(toks, start + 1, WindowEnd(sp, toks, start)))
    IN IF start > 0 THEN AdjustBoundary(chunk_text, FALSE) ELSE chunk_text

NextStart(sp, toks, start) ==
    LET end_idx == WindowEnd(sp, toks, start)
        moved == end_idx - sp.chunk_overlap
    IN IF moved >= end_idx THEN end_idx ELSE moved

VARIABLES
    pc,            \* where the modelled call stands
    splitter,      \* the TokenTextSplitter: [chunk_size, chunk_overlap], or None
    text,          \* the text handed to _split_by_tokens
    tokens,        \* tokens = self.encoding.encode(text)
    start_idx,     \* the loop's window start
    chunks,        \* the chunk texts appended so far
    spans,         \* per chunk, the window <<start_idx, end_idx>> it was cut from
    encode_calls,  \* calls of self.encoding.encode made on a text
    init_args      \* __init__'s chunk_size and chunk_overlap arguments, until the
                   \* splitter is first used; None otherwise

chunkVars ==
    <<pc, splitter, text, tokens, start_idx, chunks, spans, encode_calls, init_args>>

VARIABLES
    bpc,            \* where the pipeline stands
    chunker,        \* DocumentProcessingPipeline.chunker: [chunk_size, chunk_overlap]
    document_id,    \* process_document's document_id
    raw_documents,  \* the preprocessed page documents handed to split_documents
    doc_idx,        \* split_documents: documents already taken from the batch
    all_chunks,     \* split_documents: the output list
    returned        \* the chunk list process_document returned last

batchVars == <<bpc, chunker, document_id, raw_documents, doc_idx, all_chunks, returned>>

VARIABLES
    keyword_index,  \* HybridRetriever._keyword_index: doc_id -> [tf, length]
    document_map,   \* HybridRetriever._document_map: doc_id -> Document
    call,           \* the arguments and oracle answers of the last retrieve call
    result          \* what the last retrieve call gave its caller

retrVars == <<keyword_index, document_map, call, result>>

VARIABLES
    adder,          \* a thread inside add_documents: its documents and position, or None
    searcher        \* a thread inside a search: its locals and position, or None

concVars == <<adder, searcher>>

VARIABLES
    document_storage,  \* routes/documents.py: _document_storage, doc_id -> content
    vector_store       \* the documents the vector backend holds, in the order added

indexVars == <<document_storage, vector_store>>

VARIABLES
    rerank_call,    \* the arguments of the last Reranker.rerank call, or None
    reranked        \* what that call returned: [documents], or None

rerankVars == <<rerank_call, reranked>>

vars == <<chunkVars, batchVars, retrVars, concVars, indexVars, rerankVars>>

\* ------------------------------------------------------------ idle parts
\* a specification leaves the variables of the other parts at these values
ChunkIdle ==
    /\ pc = "idle"
    /\ splitter = None
    /\ text = <<>>
    /\ tokens = <<>>
    /\ start_idx = 0
    /\ chunks = <<>>
    /\ spans = <<>>
    /\ encode_calls = 0
    /\ init_args = None

BatchIdle ==
    /\ bpc = "idle"
    /\ chunker = None
    /\ document_id = NoId
    /\ raw_documents = <<>>
    /\ doc_idx = 0
    /\ all_chunks = <<>>
    /\ returned = <<>>

RetrIdle ==
    /\ keyword_index = <<>>
    /\ document_map = <<>>
    /\ call = None
    /\ result = None

ConcIdle ==
    /\ adder = None
    /\ searcher = None

IndexIdle ==
    /\ document_storage = <<>>
    /\ vector_store = <<>>

RerankIdle ==
    /\ rerank_call = None
    /\ reranked = None

OthersIdle == ConcIdle /\ IndexIdle /\ RerankIdle

\* ================================================================ SpecChunk
ChunkInit ==
    /\ pc = "new"
    /\ splitter = None
    /\ text = <<>>
    /\ tokens = <<>>
    /\ start_idx = 0
    /\ chunks = <<>>
    /\ spans = <<>>
    /\ encode_calls = 0
    /\ init_args = None
    /\ BatchIdle
    /\ RetrIdle
    /\ OthersIdle

\* TokenTextSplitter(chunk_size, chunk_overlap, settings=settings)
Construct ==
    /\ pc = "new"
    /\ \E chunk_size \in 0..MaxChunkSize, chunk_overlap \in 0..MaxOverlap,
          settings \in SettingsSet :
          LET sp == NewSplitter(chunk_size, chunk_overlap, settings)
          IN /\ splitter' = sp
             /\ init_args' = [chunk_size |-> chunk_size, chunk_overlap |-> chunk_overlap]
             /\ pc' = IF SplitterRejects(sp.chunk_size, sp.chunk_overlap)
                      THEN "ctor_error" ELSE "ready"
    /\ UNCHANGED <<text, tokens, start_idx, chunks, spans, encode_calls>>
    /\ UNCHANGED <<batchVars, retrVars, concVars, indexVars, rerankVars>>

\* _split_by_tokens(text) up to the loop: encode, and the one-chunk early return
SplitBegin ==
    /\ pc = "ready"
    /\ \E t \in Texts :
          /\ text' = t
          /\ tokens' = Encode(t)
          /\ encode_calls' = encode_calls + 1
          /\ IF Len(Encode(t)) <= splitter.chunk_size
             THEN /\ chunks' = <<t>>
                  /\ spans' = << <<0, Len(Encode(t))>> >>
                  /\ pc' = "done"
             ELSE /\ chunks' = <<>>
                  /\ spans' = <<>>
                  /\ pc' = "loop"
    /\ start_idx' = 0
    /\ init_args' = None
    /\ UNCHANGED splitter
    /\ UNCHANGED <<batchVars, retrVars, concVars, indexVars, rerankVars>>

\* one iteration of `while start_idx < total_tokens`
LoopIter ==
    /\ pc = "loop"
    /\ start_idx < Len(tokens)
    /\ Len(chunks) < MaxChunks
    /\ chunks' = Append(chunks, WindowText(splitter, tokens, start_idx))
    /\ spans' = Append(spans, <<start_idx, WindowEnd(splitter, tokens, start_idx)>>)
    /\ start_idx' = NextStart(splitter, tokens, start_idx)
    /\ UNCHANGED <<pc, splitter, text, tokens, encode_calls, init_args>>
    /\ UNCHANGED <<batchVars, retrVars, concVars, indexVars, rerankVars>>

\* the loop condition fails: return chunks
LoopExit ==
    /\ pc = "loop"
    /\ start_idx >= Len(tokens)
    /\ pc' = "done"
    /\ UNCHANGED <<splitter, text, tokens, start_idx, chunks, spans, encode_calls,
                   init_args>>
    /\ UNCHANGED <<batchVars, retrVars, concVars, indexVars, rerankVars>>

ChunkNext == Construct \/ SplitBegin \/ LoopIter \/ LoopExit

SpecChunk == ChunkInit /\ [][ChunkNext]_vars

\* ------------------------------------------------------- SpecChunk: claims
\* the tokens of the window that chunk i still holds whole after snapping
WholeTokens(i) ==
    Max({n \in 0..(spans[i][2] - spans[i][1]) :
            Len(Decode(SubSeq(tokens, spans[i][1] + 1, spans[i][1] + n))) <= Len(chunks[i])})
CoveredEnd(i) == spans[i][1] + WholeTokens(i)

\* C1: with chunk_size > overlap >= 0 the window start strictly increases on
\* every iteration of the loop of _split_by_tokens (so the loop terminates).
C1_StartStrictlyIncreases ==
    [][(/\ pc = "loop"
        /\ start_idx < Len(tokens)
        /\ splitter.chunk_size > splitter.chunk_overlap
        /\ splitter.chunk_overlap >= 0) => start_idx' > start_idx]_vars

\* C2: for L > chunk_size and overlap < chunk_size the returned chunks cover every
\* token position of [0, L) and consecutive chunks share 0..overlap tokens.
C2_CoverageNoGap ==
    (/\ pc = "done"
     /\ Len(tokens) > splitter.chunk_size
     /\ splitter.chunk_overlap < splitter.chunk_size)
    => /\ \A t \in 0..(Len(tokens) - 1) :
             \E i \in 1..Len(chunks) : spans[i][1] <= t /\ t < CoveredEnd(i)
       /\ \A i \in 1..(Len(chunks) - 1) :
             /\ CoveredEnd(i) - spans[i + 1][1] >= 0
             /\ CoveredEnd(i) - spans[i + 1][1] <= splitter.chunk_overlap

\* C3: with chunk_size <= overlap construction fails, so no text is ever encoded
\* and no chunk is produced.
C3_RejectedBeforeTokenizing ==
    (splitter # None /\ splitter.chunk_size <= splitter.chunk_overlap)
    => (encode_calls = 0 /\ chunks = <<>>)

\* the text of the window chunk i was cut from, before any snapping
WindowOf(i) == Decode(SubSeq(tokens, spans[i][1] + 1, spans[i][2]))
EndsWith(t, sep) ==
    Len(t) >= Len(sep) /\ SubSeq(t, Len(t) - Len(sep) + 1, Len(t)) = sep

\* C25: the three sentence document, chunk_size 4 and overlap 1, is cut into a
\* finite sequence of chunks (each window starts after the one before it) and
\* every chunk but the last ends immediately after a ". ".
C25_SentenceDocumentSnapped ==
    (/\ pc \in {"loop", "done"}
     /\ text = SentenceDocument
     /\ splitter.chunk_size = 4
     /\ splitter.chunk_overlap = 1)
    => \A i \in 1..(Len(chunks) - 1) :
          /\ EndsWith(chunks[i], <<".", " ">>)
          /\ spans[i][1] < spans[i + 1][1]

\* the separator classes of a trailing edge, first the one tried first: paragraph
\* break, line break, sentence end + space, clause punctuation + space, space
TrailingClasses ==
    << {<<"\n", "\n">>},
       {<<"\n">>},
       {<<".", " ">>, <<"!", " ">>, <<"?", " ">>},
       {<<",", " ">>, <<";", " ">>, <<":", " ">>},
       {<<" ">>} >>
\* where the text would end if cut just after an occurrence of a separator of cls
CutPoints(t, cls) ==
    UNION {{i + Len(sep) : i \in Occurrences(t, sep)} : sep \in cls}
RECURSIVE TruncatedFrom(_, _)
TruncatedFrom(t, n) ==
    IF n > Len(TrailingClasses) THEN t
    ELSE IF CutPoints(t, TrailingClasses[n]) # {}
         THEN SubSeq(t, 1, Max(CutPoints(t, TrailingClasses[n])))
         ELSE TruncatedFrom(t, n + 1)

\* C26: a chunk whose trailing edge is snapped is its window's text cut just after
\* the last occurrence of the first separator class, in the order paragraph break,
\* line break, sentence end + space, clause punctuation + space, plain space,
\* that occurs in it; with none of them it is the window's text unchanged.
C26_TrailingEdgePriority ==
    pc \in {"loop", "done"}
    => \A i \in 1..Len(chunks) :
          spans[i][1] > 0 => chunks[i] = TruncatedFrom(WindowOf(i), 1)

\* C27: a splitter just constructed holds the (positive) chunk_size and the
\* chunk_overlap its constructor was given, an explicit chunk_overlap of 0 included.
C27_UsesArgumentsPassed ==
    (pc = "ready" /\ init_args # None)
    => /\ init_args.chunk_size > 0 => splitter.chunk_size = init_args.chunk_size
       /\ splitter.chunk_overlap = init_args.chunk_overlap


\* ================================================================ SpecBatch
MaxPages == 2        \* page documents one loaded document gives

\* text the tokenizer refuses: tiktoken's encode raises ValueError on a text that
\* holds a special token it was not allowed to see
Special == "<|endoftext|>"
EncodeFails(t) == \E i \in 1..Len(t) : t[i] = Special

\* the page texts tried (already cleaned: _clean_text leaves them as they are)
PageTexts ==
    { Decode(<<"W">>),
      Decode(<<"W", "DOT", "SW">>),
      Decode(<<"W", "NL", "W", "SW">>),
      <<"a", Special>> }
PageBatches == UNION {[1..n -> PageTexts] : n \in 0..MaxPages}
DocumentIds == {"d1", "d2"}

\* a dict: a function on the keys present
MetaGet(md, key, dflt) == IF key \in DOMAIN md THEN md[key] ELSE dflt

\* the loaders followed by _preprocess_documents: one Document per page, its
\* metadata enriched with the document_id
PreprocessDocuments(pages, content_type, id) ==
    [i \in 1..Len(pages) |->
        [page_content |-> pages[i],
         metadata |-> IF content_type = "application/pdf"
                      THEN [page |-> i, document_id |-> id]
                      ELSE [document_type |-> "text", document_id |-> id]]]

\* _split_by_tokens as a function: the loop unrolled from `start`
RECURSIVE SplitFrom(_, _, _)
SplitFrom(sp, toks, start) ==
    IF start >= Len(toks) THEN <<>>
    ELSE <<WindowText(sp, toks, start)>> \o SplitFrom(sp, toks, NextStart(sp, toks, start))

\* the loop never ends: the window start stops advancing (NextStart is monotone
\* in start, so a start that does not advance never will)
RECURSIVE DivergesFrom(_, _, _)
DivergesFrom(sp, toks, start) ==
    IF start >= Len(toks) THEN FALSE
    ELSE IF NextStart(sp, toks, start) <= start THEN TRUE
         ELSE DivergesFrom(sp, toks, NextStart(sp, toks, start))

Diverges(sp, t) == Len(Encode(t)) > sp.chunk_size /\ DivergesFrom(sp, Encode(t), 0)

SplitByTokens(sp, t) ==
    IF Len(Encode(t)) <= sp.chunk_size THEN <<t>> ELSE SplitFrom(sp, Encode(t), 0)

\* (mutant) a short document's chunk is marked as one part of a split document
StandaloneChunkAsPart(doc) ==
    [page_content |-> doc.page_content,
     metadata |-> [chunk_index |-> 0, total_chunks |-> 1,
                   token_count |-> CountTokens(doc.page_content),
                   is_standalone |-> FALSE] @@ doc.metadata]

\* split_documents, the body of the try for one document that raises nothing
StandaloneChunk(doc) ==
    [page_content |-> doc.page_content,
     metadata |-> [chunk_index |-> 0, total_chunks |-> 1,
                   token_count |-> CountTokens(doc.page_content),
                   is_standalone |-> TRUE] @@ doc.metadata]

\* (mutant) the chunks of a split document are numbered from 1
ChunkDocumentsFromOne(sp, doc) ==
    IF CountTokens(doc.page_content) <= sp.chunk_size THEN <<StandaloneChunk(doc)>>
    ELSE LET cs == SplitByTokens(sp, doc.page_content)
         IN [i \in 1..Len(cs) |->
                [page_content |-> cs[i],
                 metadata |-> [chunk_index |-> i, total_chunks |-> Len(cs),
                               token_count |-> CountTokens(cs[i]),
                               is_standalone |-> FALSE] @@ doc.metadata]]

ChunkDocuments(sp, doc) ==
    IF CountTokens(doc.page_content) <= sp.chunk_size THEN <<StandaloneChunk(doc)>>
    ELSE LET cs == SplitByTokens(sp, doc.page_content)
         IN [i \in 1..Len(cs) |->
                [page_content |-> cs[i],
                 metadata |-> [chunk_index |-> i - 1, total_chunks |-> Len(cs),
                               token_count |-> CountTokens(cs[i]),
                               is_standalone |-> FALSE] @@ doc.metadata]]

\* (mutant) the except branch throws the batch's output so far away
KeepOriginalOnly(out, doc) == <<doc>>

\* the except branch: the original document is kept
KeepOriginal(out, doc) == Append(out, doc)

\* chunk_id = f"{document_id}_chunk_{chunk_idx}".  The text after the last
\* "_chunk_" is the index, so the string determines both parts: a pair.
ChunkId(id, chunk_idx) == <<id, chunk_idx>>

FinalizeChunkMetadata(cs, id) ==
    [i \in 1..Len(cs) |->
        [page_content |-> cs[i].page_content,
         metadata |-> [document_id |-> id,
                       chunk_id |-> ChunkId(id, MetaGet(cs[i].metadata, "chunk_index", 0))]
                      @@ cs[i].metadata]]

BatchInit ==
    /\ bpc = "new"
    /\ chunker = None
    /\ document_id = NoId
    /\ raw_documents = <<>>
    /\ doc_idx = 0
    /\ all_chunks = <<>>
    /\ returned = <<>>
    /\ ChunkIdle
    /\ RetrIdle
    /\ OthersIdle

\* DocumentProcessingPipeline(settings)
PipelineInit ==
    /\ bpc = "new"
    /\ \E settings \in SettingsSet :
          LET sp == NewSplitter(settings.chunk_size, settings.chunk_overlap, settings)
          IN /\ chunker' = sp
             /\ bpc' = IF SplitterRejects(sp.chunk_size, sp.chunk_overlap)
                       THEN "ctor_error" ELSE "idle"
    /\ UNCHANGED <<document_id, raw_documents, doc_idx, all_chunks, returned>>
    /\ UNCHANGED <<chunkVars, retrVars, concVars, indexVars, rerankVars>>

\* process_document up to the call of split_documents: load and preprocess
ProcessBegin ==
    /\ bpc = "idle"
    /\ \E id \in DocumentIds, pages \in PageBatches,
          content_type \in {"application/pdf", "text/plain", "image/png"} :
          /\ content_type = "text/plain" => Len(pages) = 1
          /\ document_id' = id
          /\ returned' = <<>>
          /\ IF content_type = "image/png"
             THEN /\ bpc' = "idle"          \* ValueError: unsupported content type
                  /\ raw_documents' = <<>>
             ELSE /\ bpc' = "split"
                  /\ raw_documents' = PreprocessDocuments(pages, content_type, id)
    /\ doc_idx' = 0
    /\ all_chunks' = <<>>
    /\ UNCHANGED chunker
    /\ UNCHANGED <<chunkVars, retrVars, concVars, indexVars, rerankVars>>

\* split_documents: one iteration of `for doc_idx, doc in enumerate(documents)`
SplitDocument ==
    /\ bpc = "split"
    /\ doc_idx < Len(raw_documents)
    /\ LET doc == raw_documents[doc_idx + 1]
       IN IF EncodeFails(doc.page_content)
          THEN all_chunks' = KeepOriginal(all_chunks, doc)
          ELSE /\ ~Diverges(chunker, doc.page_content)
               /\ all_chunks' = all_chunks \o ChunkDocuments(chunker, doc)
    /\ doc_idx' = doc_idx + 1
    /\ UNCHANGED <<bpc, chunker, document_id, raw_documents, returned>>
    /\ UNCHANGED <<chunkVars, retrVars, concVars, indexVars, rerankVars>>

\* split_documents on a document whose loop never ends: the chunk list grows until
\* the process is killed, or until the allocation fails with MemoryError, which the
\* `except Exception` catches
SplitDocumentDiverges ==
    /\ bpc = "split"
    /\ doc_idx < Len(raw_documents)
    /\ LET doc == raw_documents[doc_idx + 1]
       IN /\ ~EncodeFails(doc.page_content)
          /\ Diverges(chunker, doc.page_content)
          /\ \/ /\ bpc' = "hung"
                /\ UNCHANGED <<doc_idx, all_chunks>>
             \/ /\ all_chunks' = KeepOriginal(all_chunks, doc)
                /\ doc_idx' = doc_idx + 1
                /\ UNCHANGED bpc
    /\ UNCHANGED <<chunker, document_id, raw_documents, returned>>
    /\ UNCHANGED <<chunkVars, retrVars, concVars, indexVars, rerankVars>>

\* split_documents returns; _finalize_chunk_metadata; process_document returns
Finalize ==
    /\ bpc = "split"
    /\ doc_idx = Len(raw_documents)
    /\ returned' = FinalizeChunkMetadata(all_chunks, document_id)
    /\ bpc' = "idle"
    /\ UNCHANGED <<chunker, document_id, raw_documents, doc_idx, all_chunks>>
    /\ UNCHANGED <<chunkVars, retrVars, concVars, indexVars, rerankVars>>

BatchNext ==
    PipelineInit \/ ProcessBegin \/ SplitDocument \/ SplitDocumentDiverges \/ Finalize

SpecBatch == BatchInit /\ [][BatchNext]_vars

\* ------------------------------------------------------- SpecBatch: claims
\* C4: no two chunks that one process_document call returns carry the same
\* chunk_id, and every chunk_id names the call's document_id.
C4_ChunkIdUnique ==
    /\ \A i, j \in 1..Len(returned) :
          i # j => returned[i].metadata.chunk_id # returned[j].metadata.chunk_id
    /\ \A i \in 1..Len(returned) : returned[i].metadata.chunk_id[1] = document_id

\* split_documents has returned: every document of the batch was taken
SplitReturned == bpc = "split" /\ doc_idx = Len(raw_documents)

\* the page document an output element was made from
PageOf(c) == MetaGet(c.metadata, "page", 1)
OutputOf(i) == SelectSeq(all_chunks, LAMBDA c : PageOf(c) = i)

C16_ChunksNonEmptyAndIndexed ==
    SplitReturned =>
        \A i \in 1..Len(raw_documents) :
            raw_documents[i].page_content # <<>> =>
                /\ Len(OutputOf(i)) >= 1
                /\ \A n \in 1..Len(OutputOf(i)) :
                       /\ OutputOf(i)[n].page_content # <<>>
                       /\ "chunk_index" \in DOMAIN OutputOf(i)[n].metadata

\* C17: a document whose text has L <= chunk_size tokens gives exactly one chunk:
\* is_standalone, chunk_index 0, total_chunks 1, token_count L, the text unchanged.
C17_ShortDocumentStandalone ==
    SplitReturned =>
        \A i \in 1..Len(raw_documents) :
            LET doc == raw_documents[i]
            IN (/\ ~EncodeFails(doc.page_content)
                /\ Len(Encode(doc.page_content)) <= chunker.chunk_size)
               => /\ Len(OutputOf(i)) = 1
                  /\ OutputOf(i)[1].page_content = doc.page_content
                  /\ OutputOf(i)[1].metadata.is_standalone = TRUE
                  /\ OutputOf(i)[1].metadata.chunk_index = 0
                  /\ OutputOf(i)[1].metadata.total_chunks = 1
                  /\ OutputOf(i)[1].metadata.token_count = Len(Encode(doc.page_content))

\* a two-page batch: the first page of 3 tokens fits the chunk size exactly, the
\* second is longer and was split
C17_Witness ==
    /\ SplitReturned
    /\ Len(raw_documents) = 2
    /\ ~EncodeFails(raw_documents[1].page_content)
    /\ Len(Encode(raw_documents[1].page_content)) = chunker.chunk_size
    /\ chunker.chunk_size = 3
    /\ Len(OutputOf(1)) = 1
    /\ Len(OutputOf(2)) >= 2

\* C18: every element split_documents emits carries a token_count of at most
\* chunk_size, and its text has at most chunk_size tokens.
C18_TokenBounded ==
    SplitReturned =>
        \A n \in 1..Len(all_chunks) :
            /\ "token_count" \in DOMAIN all_chunks[n].metadata
            /\ all_chunks[n].metadata.token_count <= chunker.chunk_size
            /\ ~EncodeFails(all_chunks[n].page_content)
                  => CountTokens(all_chunks[n].page_content) <= chunker.chunk_size

\* C28: when split_documents returns, the chunks of each document that was chunked
\* (not kept as the original by the except branch) carry chunk_index 0, 1, ..., n-1
\* in the order emitted, and each carries total_chunks = n.
C28_OrdinalsContiguous ==
    SplitReturned =>
        \A i \in 1..Len(raw_documents) :
            OutputOf(i) # <<raw_documents[i]>> =>
                \A n \in 1..Len(OutputOf(i)) :
                    /\ OutputOf(i)[n].metadata.chunk_index = n - 1
                    /\ OutputOf(i)[n].metadata.total_chunks = Len(OutputOf(i))

\* a two-page batch: one page gave a single chunk, the other was cut into three
\* or more
C28_Witness ==
    /\ SplitReturned
    /\ Len(raw_documents) = 2
    /\ OutputOf(1) # <<raw_documents[1]>>
    /\ Len(OutputOf(1)) = 1
    /\ OutputOf(2) # <<raw_documents[2]>>
    /\ Len(OutputOf(2)) >= 3

\* ================================================================= SpecRetr
MaxAdd == 2          \* documents in one add_documents call
MaxVec == 2          \* results the vector backend answers with
MaxK == 2            \* largest k asked of retrieve

Range(f) == {f[x] : x \in DOMAIN f}

\* ---- a dict whose iteration order matters: <<key, value>> pairs in insertion order
DictKeys(d) == {d[i][1] : i \in 1..Len(d)}
DictGet(d, key) == d[CHOOSE i \in 1..Len(d) : d[i][1] = key][2]
DictPut(d, key, val) ==
    IF key \in DictKeys(d)
    THEN [i \in 1..Len(d) |-> IF d[i][1] = key THEN <<key, val>> ELSE d[i]]
    ELSE Append(d, <<key, val>>)

\* ---- str.lower().split(): split() cuts at runs of whitespace
Whitespace == {" ", "\n"}
Lower(c) == IF c = "X" THEN "x" ELSE IF c = "Y" THEN "y" ELSE c
LowerText(t) == [i \in 1..Len(t) |-> Lower(t[i])]

RECURSIVE SplitFromChar(_, _, _)
SplitFromChar(t, i, word) ==
    IF i > Len(t) THEN (IF word = <<>> THEN <<>> ELSE <<word>>)
    ELSE IF t[i] \in Whitespace
         THEN (IF word = <<>> THEN <<>> ELSE <<word>>) \o SplitFromChar(t, i + 1, <<>>)
         ELSE SplitFromChar(t, i + 1, Append(word, t[i]))
Split(t) == SplitFromChar(t, 1, <<>>)

Terms(t) == Split(LowerText(t))

\* collections.Counter
Counter(terms) ==
    [w \in Range(terms) |-> Cardinality({i \in 1..Len(terms) : terms[i] = w})]

\* ---- the documents and queries tried
DocTexts == { <<"X", " ", "y">>, <<"x">> }
DocMetas == { [chunk_id |-> "A", source |-> "S"],
              [chunk_id |-> "B", source |-> "S"],
              [source |-> "S"] }
IndexDocs == [page_content : DocTexts, metadata : DocMetas]
Queries == { <<"x">>, <<"Y", " ", " ", "x">> }
\* (vector_weight, keyword_weight) in tenths: the defaults 0.7 / 0.3, and 0.5 / 0.5
Weights == { <<7, 3>>, <<5, 5>> }
\* the order of chunk ids as strings
IdOrder == <<"A", "B", "S">>
IdLess(a, b) ==
    (CHOOSE i \in 1..Len(IdOrder) : IdOrder[i] = a)
        < (CHOOSE i \in 1..Len(IdOrder) : IdOrder[i] = b)

\* doc.metadata.get("chunk_id", doc.metadata.get("source", ""))
DocId(doc) == MetaGet(doc.metadata, "chunk_id", MetaGet(doc.metadata, "source", ""))

\* ---- add_documents
Posting(doc) ==
    [tf |-> Counter(Terms(doc.page_content)), length |-> Len(Terms(doc.page_content))]

\* (mutant) a posting is appended on every add, also for a doc_id already indexed
IndexOneAppend(index, doc) == Append(index, <<DocId(doc), Posting(doc)>>)

\* the index after one document: the posting is stored for a new doc_id only
IndexOne(index, doc) ==
    IF DocId(doc) \notin DictKeys(index)
    THEN DictPut(index, DocId(doc), Posting(doc))
    ELSE index

RECURSIVE IndexAll(_, _)
IndexAll(index, docs) ==
    IF docs = <<>> THEN index ELSE IndexAll(IndexOne(index, Head(docs)), Tail(docs))

\* (mutant) only the first document of a call is put into the document map
MapFirstOnly(map, docs) ==
    IF docs = <<>> THEN map ELSE (DocId(Head(docs)) :> Head(docs)) @@ map

RECURSIVE MapAll(_, _)
MapAll(map, docs) ==
    IF docs = <<>> THEN map
    ELSE MapAll((DocId(Head(docs)) :> Head(docs)) @@ map, Tail(docs))

\* ---- sorted(items, key=lambda x: x[1], reverse=True): stable, so items of equal
\* score keep the order they had
RECURSIVE InsertDesc(_, _)
InsertDesc(sorted, item) ==
    IF sorted = <<>> THEN <<item>>
    ELSE IF Head(sorted)[2] >= item[2]
         THEN <<Head(sorted)>> \o InsertDesc(Tail(sorted), item)
         ELSE <<item>> \o sorted

RECURSIVE SortDescFrom(_, _, _)
SortDescFrom(items, i, acc) ==
    IF i > Len(items) THEN acc
    ELSE SortDescFrom(items, i + 1, InsertDesc(acc, items[i]))
SortedDesc(items) == SortDescFrom(items, 1, <<>>)

Gcd(a, b) == Max({d \in 1..Min2(a, b) : a % d = 0 /\ b % d = 0})
RECURSIVE LcmOf(_)
LcmOf(S) ==
    IF S = {} THEN 1
    ELSE LET x == CHOOSE y \in S : TRUE
             rest == LcmOf(S \ {x})
         IN (rest * x) \div Gcd(rest, x)

FirstN(seq, n) == SubSeq(seq, 1, Min2(n, Len(seq)))

\* ---- _keyword_search.  doc_tf[term] / doc_length is kept exact: every quotient is
\* scaled by TfScale, a common multiple of the document lengths.
TfScale == LcmOf({Len(Terms(t)) : t \in DocTexts} \ {0})

RECURSIVE TfSum(_, _, _)
TfSum(info, query_terms, i) ==
    IF i > Len(query_terms) THEN 0
    ELSE (IF query_terms[i] \in DOMAIN info.tf /\ info.length > 0
          THEN info.tf[query_terms[i]] * (TfScale \div info.length) ELSE 0)
         + TfSum(info, query_terms, i + 1)

KeywordScore(info, query_terms) == TfSum(info, query_terms, 1)

KeywordScores(index, query) ==
    SelectSeq([i \in 1..Len(index) |->
                  <<index[i][1], KeywordScore(index[i][2], Terms(query))>>],
              LAMBDA e : e[2] > 0)

KeywordSearch(index, query, k) == FirstN(SortedDesc(KeywordScores(index, query)), k)

\* ---- _reciprocal_rank_fusion.  weight / (60 + rank) is kept exact: weights are in
\* tenths and every term is scaled by RrfScale, a common multiple of the 60 + rank.
RrfConstant == 60
MaxRank == Max({MaxVec, Cardinality(DocMetas)})
RrfScale == LcmOf({RrfConstant + r : r \in 1..MaxRank})
\* (mutant) the source's weight is left out of its contribution
RrfTermUnweighted(weight, rank) == RrfScale \div (RrfConstant + rank)

RrfTerm(weight, rank) == weight * (RrfScale \div (RrfConstant + rank))

RECURSIVE AddRanks(_, _, _, _)
AddRanks(scores, ids, rank, weight) ==
    IF rank > Len(ids) THEN scores
    ELSE AddRanks(DictPut(scores, ids[rank],
                          (IF ids[rank] \in DictKeys(scores)
                           THEN DictGet(scores, ids[rank]) ELSE 0)
                          + RrfTerm(weight, rank)),
                  ids, rank + 1, weight)

RrfScores(vector_results, keyword_results, vector_weight, keyword_weight) ==
    AddRanks(AddRanks(<<>>, [i \in 1..Len(vector_results) |-> DocId(vector_results[i])],
                      1, vector_weight),
             [i \in 1..Len(keyword_results) |-> keyword_results[i][1]],
             1, keyword_weight)

\* (mutant) the fused list in ascending score order
SortedIdsAscending(vector_results, keyword_results, vector_weight, keyword_weight) ==
    LET desc == SortedDesc(RrfScores(vector_results, keyword_results,
                                     vector_weight, keyword_weight))
    IN [i \in 1..Len(desc) |-> desc[Len(desc) + 1 - i]]

SortedIds(vector_results, keyword_results, vector_weight, keyword_weight) ==
    SortedDesc(RrfScores(vector_results, keyword_results, vector_weight, keyword_weight))

\* (mutant) every fused candidate is resolved, the cut to k left out
ResolveAll(map, sorted_ids, k) ==
    LET kept == SelectSeq(sorted_ids, LAMBDA e : e[1] \in DOMAIN map)
    IN [i \in 1..Len(kept) |-> map[kept[i][1]]]

\* (mutant) the first k fused candidates are answered without looking into the
\* document map, as bare documents of their ids
ResolveUnchecked(map, sorted_ids, k) ==
    LET top == FirstN(sorted_ids, k)
    IN [i \in 1..Len(top) |->
           [page_content |-> <<>>, metadata |-> [chunk_id |-> top[i][1]]]]

\* for doc_id, _ in sorted_ids[:k]: if doc_id in self._document_map: append
Resolve(map, sorted_ids, k) ==
    LET top == FirstN(sorted_ids, k)
        kept == SelectSeq(top, LAMBDA e : e[1] \in DOMAIN map)
    IN [i \in 1..Len(kept) |-> map[kept[i][1]]]

ReciprocalRankFusion(map, vector_results, keyword_results, k, vector_weight, keyword_weight) ==
    Resolve(map, SortedIds(vector_results, keyword_results, vector_weight, keyword_weight), k)

\* ---- the vector backend's answers: an error, or documents it holds
VectorText == <<"X", " ", "y">>
VectorDocs == [page_content : {VectorText}, metadata : DocMetas]
VectorLists(n) == UNION {[1..m -> VectorDocs] : m \in 0..Min2(n, MaxVec)}
VectorError == [ok |-> FALSE, docs |-> <<>>]
VectorAnswers(n) == {VectorError} \cup {[ok |-> TRUE, docs |-> l] : l \in VectorLists(n)}

\* (mutant) the except branch answers an empty list when the backend raises
FallbackSwallowsError(answer) ==
    [kind |-> "ok", error |-> "", docs |-> answer.docs]

\* the except branch of retrieve: similarity_search(query, k), which wraps whatever
\* the backend raises in a ValueError
FallbackResult(answer) ==
    IF answer.ok THEN [kind |-> "ok", error |-> "", docs |-> answer.docs]
    ELSE [kind |-> "error", error |-> "ValueError", docs |-> <<>>]

RetrInit ==
    /\ keyword_index = <<>>
    /\ document_map = <<>>
    /\ call = None
    /\ result = None
    /\ ChunkIdle
    /\ BatchIdle
    /\ OthersIdle

\* add_documents(documents)
AddDocuments ==
    /\ result = None
    /\ \E docs \in UNION {[1..n -> IndexDocs] : n \in 1..MaxAdd} :
          /\ keyword_index' = IndexAll(keyword_index, docs)
          /\ document_map' = MapAll(document_map, docs)
    /\ UNCHANGED <<call, result>>
    /\ UNCHANGED <<chunkVars, batchVars, concVars, indexVars, rerankVars>>

\* retrieve(query, k, vector_weight, keyword_weight), the try body running through
RetrieveFused ==
    /\ result = None
    /\ \E query \in Queries, k \in 1..MaxK, w \in Weights :
       \E v1 \in VectorAnswers(2 * k) :
          /\ v1.ok
          /\ LET keyword_scores == KeywordSearch(keyword_index, query, k * 2)
                 fused == SortedIds(v1.docs, keyword_scores, w[1], w[2])
             IN /\ call' = [query |-> query, k |-> k, weights |-> w, path |-> "fused",
                            v1 |-> "ok", kw |-> "ok", v2 |-> "not called",
                            vector_ids |-> [i \in 1..Len(v1.docs) |-> DocId(v1.docs[i])],
                            keyword_results |-> keyword_scores,
                            fused |-> fused]
                /\ result' = [kind |-> "ok", error |-> "",
                              docs |-> ReciprocalRankFusion(document_map, v1.docs,
                                           keyword_scores, k, w[1], w[2])]
    /\ UNCHANGED <<keyword_index, document_map>>
    /\ UNCHANGED <<chunkVars, batchVars, concVars, indexVars, rerankVars>>

\* retrieve when the vector query raises (the keyword search is then never reached)
\* or when the keyword search raises: the except branch
RetrieveFallback ==
    /\ result = None
    /\ \E query \in Queries, k \in 1..MaxK, w \in Weights :
       \E v1ok \in BOOLEAN, v2 \in VectorAnswers(k) :
          /\ call' = [query |-> query, k |-> k, weights |-> w, path |-> "fallback",
                      v1 |-> IF v1ok THEN "ok" ELSE "error",
                      kw |-> IF v1ok THEN "error" ELSE "not called",
                      v2 |-> IF v2.ok THEN "ok" ELSE "error",
                      vector_ids |-> <<>>, keyword_results |-> <<>>,
                      fused |-> <<>>]
          /\ result' = FallbackResult(v2)
    /\ UNCHANGED <<keyword_index, document_map>>
    /\ UNCHANGED <<chunkVars, batchVars, concVars, indexVars, rerankVars>>

\* the caller takes what retrieve gave it
Return ==
    /\ result # None
    /\ result' = None
    /\ call' = None
    /\ UNCHANGED <<keyword_index, document_map>>
    /\ UNCHANGED <<chunkVars, batchVars, concVars, indexVars, rerankVars>>

RetrNext == AddDocuments \/ RetrieveFused \/ RetrieveFallback \/ Return

SpecRetr == RetrInit /\ [][RetrNext]_vars

\* -------------------------------------------------------- SpecRetr: claims
\* what the keyword source alone ranks: its first k hits that the map resolves
KeywordOnly(query, k) ==
    LET hits == SelectSeq(KeywordSearch(keyword_index, query, k * 2),
                          LAMBDA e : e[1] \in DOMAIN document_map)
    IN [i \in 1..Min2(k, Len(hits)) |-> document_map[hits[i][1]]]

\* C5: when the vector query raises, retrieve does not fail and returns the keyword
\* source's own ranking.
C5_VectorErrorGivesKeywordRanking ==
    (result # None /\ call.v1 = "error")
    => (result.kind = "ok" /\ result.docs = KeywordOnly(call.query, call.k))

\* every vector call retrieve made raised, and so did the keyword search if reached
BothFailed ==
    /\ result # None
    /\ call.v2 = "error"
    /\ call.v1 = "error" \/ call.kw = "error"

C7_PostingOfLatestDocument ==
    \A id \in DOMAIN document_map :
        /\ id \in DictKeys(keyword_index)
        /\ DictGet(keyword_index, id) = Posting(document_map[id])

\* C8: the fused path returns the first k resolvable chunks in fused order, so k of
\* them whenever at least k fused candidates are resolvable.
C8_FirstKResolvable ==
    (result # None /\ call.path = "fused")
    => LET resolvable == SelectSeq(call.fused, LAMBDA e : e[1] \in DOMAIN document_map)
       IN result.docs = [i \in 1..Min2(call.k, Len(resolvable)) |->
                            document_map[resolvable[i][1]]]

\* C10: the fused list is in descending score order, equal scores in chunk_id order.
C10_FusedOrderTieById ==
    (result # None /\ call.path = "fused")
    => \A i, j \in 1..Len(call.fused) :
          i < j => \/ call.fused[i][2] > call.fused[j][2]
                   \/ /\ call.fused[i][2] = call.fused[j][2]
                      /\ IdLess(call.fused[i][1], call.fused[j][1])

\* the ranks (1-based) at which a list of ids holds id
RanksOf(ids, id) == {r \in 1..Len(ids) : ids[r] = id}

\* the sum of weight / (60 + r) over a set of ranks, on the scale of the fused scores
RECURSIVE RankSum(_, _)
RankSum(weight, ranks) ==
    IF ranks = {} THEN 0
    ELSE LET r == CHOOSE x \in ranks : TRUE
         IN (weight * RrfScale) \div (RrfConstant + r) + RankSum(weight, ranks \ {r})

KeywordIds == [i \in 1..Len(call.keyword_results) |-> call.keyword_results[i][1]]

FusedCall == result # None /\ call.path = "fused"

\* C11 as claimed: the fused score of a chunk id is vector_weight / (60 + r_v) for the
\* rank r_v at which the vector list holds it, plus keyword_weight / (60 + r_k) for
\* its rank in the keyword list, a source that does not list it contributing 0.
C11_ScoreOfTheRank ==
    FusedCall =>
        \A i \in 1..Len(call.fused) :
            LET id == call.fused[i][1]
                kw == RankSum(call.weights[2], RanksOf(KeywordIds, id))
            IN /\ \A rv \in RanksOf(call.vector_ids, id) :
                      call.fused[i][2] = RankSum(call.weights[1], {rv}) + kw
               /\ RanksOf(call.vector_ids, id) = {} => call.fused[i][2] = kw

\* C11 as amended: the fused score of a chunk id is the sum of vector_weight / (60 + r)
\* over every rank r at which the vector list holds a document of that id, plus
\* keyword_weight / (60 + r_k) for its one rank in the keyword list; the fused list
\* holds exactly the ids some source lists, each once.
C11_ScoreIsSumOverRanks ==
    FusedCall =>
        /\ \A i \in 1..Len(call.fused) :
               LET id == call.fused[i][1]
               IN /\ call.fused[i][2] = RankSum(call.weights[1], RanksOf(call.vector_ids, id))
                                        + RankSum(call.weights[2], RanksOf(KeywordIds, id))
                  /\ Cardinality(RanksOf(KeywordIds, id)) <= 1
        /\ {call.fused[i][1] : i \in 1..Len(call.fused)}
               = Range(call.vector_ids) \cup Range(KeywordIds)
        /\ \A i, j \in 1..Len(call.fused) : i # j => call.fused[i][1] # call.fused[j][1]

\* one id listed twice by the vector source and once by the keyword source, another
\* listed by the keyword source alone
C11_Witness ==
    /\ FusedCall
    /\ \E id \in Range(call.vector_ids) :
           /\ Cardinality(RanksOf(call.vector_ids, id)) = 2
           /\ RanksOf(KeywordIds, id) # {}
    /\ \E id \in Range(KeywordIds) : RanksOf(call.vector_ids, id) = {}

\* C12: the keyword hits are in non-increasing score order, hits of equal score in
\* ascending chunk_id order, whatever the order in which the chunks were added.
C12_KeywordOrderTieById ==
    FusedCall =>
        \A i, j \in 1..Len(call.keyword_results) :
            i < j => \/ call.keyword_results[i][2] > call.keyword_results[j][2]
                     \/ /\ call.keyword_results[i][2] = call.keyword_results[j][2]
                        /\ IdLess(call.keyword_results[i][1], call.keyword_results[j][1])

\* C19: a retrieve call that returns, on the fused path or on the fallback path,
\* returns at most k chunks.
C19_AtMostK ==
    (result # None /\ result.kind = "ok") => Len(result.docs) <= call.k

\* a fused call with more than k resolvable candidates that returned k chunks
C19_Witness ==
    /\ FusedCall
    /\ Len(SelectSeq(call.fused, LAMBDA e : e[1] \in DOMAIN document_map)) > call.k
    /\ Len(result.docs) = call.k

\* C20: when the vector query answers an empty list without raising, retrieve stays
\* on the fused path and returns the keyword source's own ranking.
C20_EmptyVectorGivesKeywordRanking ==
    (result # None /\ call.v1 = "ok" /\ call.kw = "ok" /\ call.vector_ids = <<>>)
    => /\ call.path = "fused"
       /\ result.kind = "ok"
       /\ result.docs = KeywordOnly(call.query, call.k)

\* an empty vector answer and two keyword hits, both returned
C20_Witness ==
    /\ FusedCall
    /\ call.vector_ids = <<>>
    /\ Len(call.keyword_results) >= 2
    /\ Len(result.docs) = 2

\* the number of occurrences of a term in a list of terms
TermCount(terms, w) == Cardinality({i \in 1..Len(terms) : terms[i] = w})

\* sum over the query's terms of occurrences in the chunk / terms in the chunk, on
\* the scale of the keyword scores
RECURSIVE TermFrequencySum(_, _, _)
TermFrequencySum(query_terms, chunk_terms, i) ==
    IF i > Len(query_terms) THEN 0
    ELSE (TermCount(chunk_terms, query_terms[i]) * TfScale) \div Len(chunk_terms)
         + TermFrequencySum(query_terms, chunk_terms, i + 1)

\* C21: every keyword hit's score is the sum, over the query's terms, of the term's
\* occurrences in the chunk stored under the hit's id divided by the number of terms
\* of that chunk, query and chunk lowercased and split at whitespace.
C21_ScoreIsTermFrequencySum ==
    FusedCall =>
        \A i \in 1..Len(call.keyword_results) :
            call.keyword_results[i][2]
                = TermFrequencySum(Terms(call.query),
                      Terms(document_map[call.keyword_results[i][1]].page_content), 1)

\* the lists of documents one add_documents call may be handed
AddLists == UNION {[1..n -> IndexDocs] : n \in 1..MaxAdd}

\* C22: in every state the retriever reaches between calls, adding chunks and then
\* adding the same chunks a second time leaves the keyword index and the document
\* map exactly as the first add left them.
C22_AddIdempotent ==
    call = None =>
        \A docs \in AddLists :
            LET once_index == IndexAll(keyword_index, docs)
                once_map == MapAll(document_map, docs)
            IN /\ IndexAll(once_index, docs) = once_index
               /\ MapAll(once_map, docs) = once_map

\* the state two chunks of different ids leave behind, which adding them again
\* does not change
C22_Witness ==
    /\ call = None
    /\ Len(keyword_index) = 2
    /\ \E docs \in AddLists :
          /\ Len(docs) = 2
          /\ DocId(docs[1]) # DocId(docs[2])
          /\ keyword_index = IndexAll(<<>>, docs)
          /\ document_map = MapAll(<<>>, docs)
          /\ IndexAll(keyword_index, docs) = keyword_index
          /\ MapAll(document_map, docs) = document_map

\* C29: after any sequence of add_documents calls the keyword index and the
\* document map hold the same set of chunk ids.
C29_SameIds == DictKeys(keyword_index) = DOMAIN document_map

\* two ids in both, one of them added a second time with another text
C29_Witness ==
    /\ Cardinality(DOMAIN document_map) = 2
    /\ Cardinality(DictKeys(keyword_index)) = 2
    /\ \E id \in DOMAIN document_map :
          DictGet(keyword_index, id) # Posting(document_map[id])

\* C30: the fused path returns no chunk id twice, and every chunk it returns is the
\* document the map holds under an id that one of the two ranked lists named.
C30_ReturnedFromMap ==
    FusedCall =>
        /\ \A i \in 1..Len(result.docs) :
              /\ DocId(result.docs[i]) \in DOMAIN document_map
              /\ document_map[DocId(result.docs[i])] = result.docs[i]
              /\ DocId(result.docs[i]) \in Range(call.vector_ids) \cup Range(KeywordIds)
        /\ \A i, j \in 1..Len(result.docs) :
              i # j => DocId(result.docs[i]) # DocId(result.docs[j])

\* the vector source named an id the map does not hold and an id whose stored text
\* is not the text the vector source supplied; only the stored one was returned
C30_Witness ==
    /\ FusedCall
    /\ \E id \in Range(call.vector_ids) : id \notin DOMAIN document_map
    /\ \E id \in Range(call.vector_ids) :
          /\ id \in DOMAIN document_map
          /\ document_map[id].page_content # VectorText
    /\ Len(result.docs) = 1

\* =============================================================== SpecRerank
MaxRerankDocs == 3   \* candidates handed to rerank
MaxTopK == 3         \* largest top_k asked of rerank

\* top_k: Optional[int]
NoTopK == [given |-> FALSE, value |-> 0]
TopKs == {NoTopK} \cup {[given |-> TRUE, value |-> n] : n \in 0..MaxTopK}
\* `if top_k`: None and 0 are both falsy
Truthy(top_k) == top_k.given /\ top_k.value # 0

RerankDocLists == UNION {[1..n -> IndexDocs] : n \in 0..MaxRerankDocs}

\* _keyword_rerank: overlap / total_terms, kept exact by scaling with a common
\* multiple of the possible totals
TermSet(t) == Range(Terms(t))
RerankScale == LcmOf(1..Cardinality(UNION {TermSet(t) : t \in DocTexts \cup Queries}))
OverlapScore(query, doc) ==
    LET overlap == Cardinality(TermSet(query) \cap TermSet(doc.page_content))
        total_terms == Cardinality(TermSet(query) \cup TermSet(doc.page_content))
    IN IF total_terms > 0 THEN overlap * (RerankScale \div total_terms) ELSE 0

KeywordRerank(query, documents) ==
    [i \in 1..Len(documents) |-> <<documents[i], OverlapScore(query, documents[i])>>]

\* the try body: score, sort (stable, descending), drop the scores, cut to top_k
RerankScored(query, documents, top_k) ==
    LET scored_docs == SortedDesc(KeywordRerank(query, documents))
        docs == [i \in 1..Len(scored_docs) |-> scored_docs[i][1]]
    IN IF Truthy(top_k) THEN FirstN(docs, top_k.value) ELSE docs

\* the except branch: documents[:top_k] if top_k else documents
RerankFailOpen(documents, top_k) ==
    IF Truthy(top_k) THEN FirstN(documents, top_k.value) ELSE documents

\* (mutant) the early returns left out and the cut made whenever top_k is given:
\* a short list is cut like any other, to nothing for top_k = 0
RerankCutWhenGiven(query, documents, top_k, raises) ==
    LET ordered == IF raises THEN documents
                   ELSE RerankScored(query, documents, NoTopK)
    IN IF top_k.given THEN FirstN(ordered, top_k.value) ELSE ordered

\* Reranker.rerank; `raises` says whether scoring raises
RerankDocuments(query, documents, top_k, raises) ==
    IF documents = <<>> THEN <<>>
    ELSE IF Len(documents) = 1 THEN documents
    ELSE IF raises THEN RerankFailOpen(documents, top_k)
    ELSE RerankScored(query, documents, top_k)

RerankInit ==
    /\ rerank_call = None
    /\ reranked = None
    /\ ChunkIdle
    /\ BatchIdle
    /\ RetrIdle
    /\ ConcIdle
    /\ IndexIdle

\* rerank(query, documents, top_k)
Rerank ==
    /\ reranked = None
    /\ \E query \in Queries, documents \in RerankDocLists, top_k \in TopKs,
          raises \in BOOLEAN :
          /\ rerank_call' = [query |-> query, documents |-> documents, top_k |-> top_k,
                             scoring_raised |-> raises /\ Len(documents) >= 2]
          /\ reranked' = [documents |-> RerankDocuments(query, documents, top_k, raises)]
    /\ UNCHANGED <<chunkVars, batchVars, retrVars, concVars, indexVars>>

\* the caller takes the list
RerankReturn ==
    /\ reranked # None
    /\ rerank_call' = None
    /\ reranked' = None
    /\ UNCHANGED <<chunkVars, batchVars, retrVars, concVars, indexVars>>

RerankNext == Rerank \/ RerankReturn

SpecRerank == RerankInit /\ [][RerankNext]_vars

\* ------------------------------------------------------ SpecRerank: claims
\* C15: when scoring raises, rerank returns the candidates in input order, cut to
\* at most top_k of them for every top_k >= 0 given, all of them when none is given.
C15_FailOpenTruncated ==
    (reranked # None /\ rerank_call.scoring_raised)
    => reranked.documents = IF rerank_call.top_k.given
                            THEN FirstN(rerank_call.documents, rerank_call.top_k.value)
                            ELSE rerank_call.documents

\* C23: rerank called with no candidate or with exactly one returns the input list
\* unchanged, whatever the query and top_k.
C23_ShortListUnchanged ==
    (reranked # None /\ Len(rerank_call.documents) <= 1)
    => reranked.documents = rerank_call.documents

\* one candidate and top_k = 0: the candidate is returned
C23_Witness ==
    /\ reranked # None
    /\ Len(rerank_call.documents) = 1
    /\ rerank_call.top_k.given
    /\ rerank_call.top_k.value = 0
    /\ Len(reranked.documents) = 1

\* |Q n C| and |Q u C| of a query and a candidate
JaccardOverlap(query, doc) ==
    Cardinality(TermSet(query) \cap TermSet(doc.page_content))
JaccardTotal(query, doc) ==
    Cardinality(TermSet(query) \cup TermSet(doc.page_content))
\* the score of a is at least the score of b (a score with an empty union is 0)
JaccardGe(query, a, b) ==
    IF JaccardTotal(query, b) = 0 \/ JaccardOverlap(query, b) = 0 THEN TRUE
    ELSE IF JaccardTotal(query, a) = 0 THEN FALSE
    ELSE JaccardOverlap(query, a) * JaccardTotal(query, b)
            >= JaccardOverlap(query, b) * JaccardTotal(query, a)

Occurs(seq, d) == Cardinality({i \in 1..Len(seq) : seq[i] = d})

\* C24: with two or more candidates and scoring that does not raise, rerank returns
\* the candidates in non-increasing order of their Jaccard score with the query, cut
\* to the first top_k of that order when top_k is given.
C24_JaccardOrderCut ==
    (/\ reranked # None
     /\ Len(rerank_call.documents) >= 2
     /\ ~rerank_call.scoring_raised)
    => LET q == rerank_call.query
           input == rerank_call.documents
           out == reranked.documents
       IN /\ Len(out) = IF rerank_call.top_k.given
                        THEN Min2(rerank_call.top_k.value, Len(input)) ELSE Len(input)
          /\ \A i, j \in 1..Len(out) : i < j => JaccardGe(q, out[i], out[j])
          /\ \A d \in Range(input) :
                /\ Occurs(out, d) <= Occurs(input, d)
                /\ Occurs(out, d) < Occurs(input, d)
                      => \A i \in 1..Len(out) : JaccardGe(q, out[i], d)

\* ================================================================ SpecIndex
MaxStored == 4       \* documents the vector backend holds at most
MaxRequestIds == 2   \* document_ids in one index request

\* the uploads tried.  doc_id is sha256(content)[:16]: an id stands for one content
Uploads ==
    { [id |-> "d1", content_type |-> "application/pdf",
       pages |-> <<Decode(<<"W">>), Decode(<<"W", "DOT", "SW">>)>>],
      [id |-> "d2", content_type |-> "text/plain",
       pages |-> <<Decode(<<"W", "NL", "W", "SW">>)>>] }

\* split_documents as a function of the batch
RECURSIVE SplitDocumentsFrom(_, _, _, _)
SplitDocumentsFrom(sp, docs, i, out) ==
    IF i > Len(docs) THEN out
    ELSE SplitDocumentsFrom(sp, docs, i + 1,
             IF EncodeFails(docs[i].page_content) THEN KeepOriginal(out, docs[i])
             ELSE out \o ChunkDocuments(sp, docs[i]))
SplitDocuments(sp, docs) == SplitDocumentsFrom(sp, docs, 1, <<>>)

\* process_document of a stored upload: load, preprocess, chunk, finalize
ProcessDocument(sp, u) ==
    FinalizeChunkMetadata(
        SplitDocuments(sp, PreprocessDocuments(u.pages, u.content_type, u.id)), u.id)

\* process_document does not return: some page's chunking loop never ends
ProcessHangs(sp, u) ==
    \E i \in 1..Len(u.pages) : ~EncodeFails(u.pages[i]) /\ Diverges(sp, u.pages[i])

\* index.delete(filter={"document_id": id})
DeleteByMetadata(store, id) ==
    SelectSeq(store, LAMBDA d : MetaGet(d.metadata, "document_id", NoId) # id)

\* index_documents, the loop over request.document_ids from position i on.
\* add_raises holds the positions at which vector_store.add_documents raises (the
\* route logs and continues).  A document whose processing never ends stops the
\* request where it is.
RECURSIVE IndexFrom(_, _, _, _, _, _, _)
IndexFrom(store, storage, sp, ids, i, force_reindex, add_raises) ==
    IF i > Len(ids) THEN store
    ELSE IF ids[i] \notin DOMAIN storage
         THEN IndexFrom(store, storage, sp, ids, i + 1, force_reindex, add_raises)
    ELSE IF ProcessHangs(sp, storage[ids[i]]) THEN store
    ELSE LET doc_chunks == ProcessDocument(sp, storage[ids[i]])
             kept == IF force_reindex THEN DeleteByMetadata(store, ids[i]) ELSE store
             added == IF i \in add_raises THEN kept ELSE kept \o doc_chunks
         IN IndexFrom(added, storage, sp, ids, i + 1, force_reindex, add_raises)

IndexInit ==
    /\ document_storage = <<>>
    /\ vector_store = <<>>
    /\ bpc = "idle"
    /\ \E settings \in SettingsSet :
          /\ ~SplitterRejects(settings.chunk_size, settings.chunk_overlap)
          /\ chunker = NewSplitter(settings.chunk_size, settings.chunk_overlap, settings)
    /\ document_id = NoId
    /\ raw_documents = <<>>
    /\ doc_idx = 0
    /\ all_chunks = <<>>
    /\ returned = <<>>
    /\ ChunkIdle
    /\ RetrIdle
    /\ ConcIdle
    /\ RerankIdle

\* POST /upload
UploadDocument ==
    /\ \E u \in Uploads : document_storage' = (u.id :> u) @@ document_storage
    /\ UNCHANGED vector_store
    /\ UNCHANGED <<chunkVars, batchVars, retrVars, concVars, rerankVars>>

\* POST /index
IndexDocuments ==
    /\ \E ids \in UNION {[1..n -> DocumentIds] : n \in 1..MaxRequestIds},
          force_reindex \in BOOLEAN :
       \E add_raises \in SUBSET (1..Len(ids)) :
          /\ vector_store' = IndexFrom(vector_store, document_storage, chunker, ids, 1,
                                       force_reindex, add_raises)
          /\ Len(vector_store') <= MaxStored
    /\ UNCHANGED document_storage
    /\ UNCHANGED <<chunkVars, batchVars, retrVars, concVars, rerankVars>>

\* DELETE /{document_id}; when the backend's delete raises the route only logs it
DeleteDocument ==
    /\ \E id \in DocumentIds, delete_raises \in BOOLEAN :
          /\ document_storage' = [k \in DOMAIN document_storage \ {id} |->
                                     document_storage[k]]
          /\ vector_store' = IF delete_raises THEN vector_store
                              ELSE DeleteByMetadata(vector_store, id)
    /\ UNCHANGED <<chunkVars, batchVars, retrVars, concVars, rerankVars>>

\* HybridRetriever.add_documents called with the chunks of a stored document
RetrieverAddDocuments ==
    /\ \E id \in DOMAIN document_storage :
          /\ ~ProcessHangs(chunker, document_storage[id])
          /\ LET doc_chunks == ProcessDocument(chunker, document_storage[id])
             IN /\ keyword_index' = IndexAll(keyword_index, doc_chunks)
                /\ document_map' = MapAll(document_map, doc_chunks)
    /\ UNCHANGED <<call, result>>
    /\ UNCHANGED <<chunkVars, batchVars, concVars, indexVars, rerankVars>>

IndexNext == UploadDocument \/ IndexDocuments \/ DeleteDocument \/ RetrieverAddDocuments

SpecIndex == IndexInit /\ [][IndexNext]_vars

\* ------------------------------------------------------- SpecIndex: claims
\* C14: every chunk_id resolves to the same text in the keyword index and in the
\* vector backend: none is held by one of them and missing from, or different in,
\* the other.
C14_BothIndexesAgree ==
    /\ \A n \in 1..Len(vector_store) :
          /\ DocId(vector_store[n]) \in DictKeys(keyword_index)
          /\ DocId(vector_store[n]) \in DOMAIN document_map
          /\ document_map[DocId(vector_store[n])].page_content
                = vector_store[n].page_content
    /\ \A id \in DictKeys(keyword_index) :
          \E n \in 1..Len(vector_store) :
              /\ DocId(vector_store[n]) = id
              /\ document_map[id].page_content = vector_store[n].page_content

\* ================================================================= SpecConc
\* add_documents in one thread and a search in another, on the same HybridRetriever.
\* Nothing in the class takes a lock: the threads interleave between the dict
\* operations, each of which is atomic.
MaxOverlappingAdds == 1   \* add_documents calls that begin while one search runs

\* the documents handed to add_documents here: two doc ids, each with either text
ConcDocs == {d \in IndexDocs : DocId(d) \in {"A", "S"}}

\* a search run alone on one generation <<index, map>>: _keyword_search(query, k * 2),
\* the first k hits, each resolved through the document map
AtomicSearch(index, map, query, k) ==
    LET hits == FirstN(KeywordSearch(index, query, k * 2), k)
        kept == SelectSeq(hits, LAMBDA h : h[1] \in DOMAIN map)
    IN [i \in 1..Len(kept) |-> map[kept[i][1]]]

\* the generation an add_documents call leaves behind
GenerationAfter(index, map, docs) == <<IndexAll(index, docs), MapAll(map, docs)>>

ConcInit ==
    /\ keyword_index = <<>>
    /\ document_map = <<>>
    /\ call = None
    /\ result = None
    /\ adder = None
    /\ searcher = None
    /\ ChunkIdle
    /\ BatchIdle
    /\ IndexIdle
    /\ RerankIdle

\* add_documents(documents) is entered
AddBegin ==
    /\ adder = None
    /\ searcher # None => (searcher.pc # "done" /\ searcher.adds < MaxOverlappingAdds)
    /\ \E docs \in UNION {[1..n -> ConcDocs] : n \in 1..MaxAdd} :
          /\ adder' = [docs |-> docs, i |-> 1, step |-> "map",
                       pre_index |-> keyword_index, pre_map |-> document_map]
          /\ searcher' = IF searcher = None THEN None
                          ELSE [searcher EXCEPT
                                   !.gens = @ \cup {GenerationAfter(keyword_index,
                                                                     document_map, docs)},
                                   !.adds = @ + 1]
    /\ UNCHANGED <<keyword_index, document_map, call, result>>
    /\ UNCHANGED <<chunkVars, batchVars, indexVars, rerankVars>>

\* self._document_map[doc_id] = doc
AddMapWrite ==
    /\ adder # None
    /\ adder.step = "map"
    /\ document_map' = (DocId(adder.docs[adder.i]) :> adder.docs[adder.i]) @@ document_map
    /\ adder' = [adder EXCEPT !.step = "index"]
    /\ UNCHANGED <<keyword_index, call, result, searcher>>
    /\ UNCHANGED <<chunkVars, batchVars, indexVars, rerankVars>>

\* if doc_id not in self._keyword_index: self._keyword_index[doc_id] = {...};
\* then the next document, or the return
AddIndexWrite ==
    /\ adder # None
    /\ adder.step = "index"
    /\ keyword_index' = IndexOne(keyword_index, adder.docs[adder.i])
    /\ adder' = IF adder.i = Len(adder.docs) THEN None
                 ELSE [adder EXCEPT !.i = @ + 1, !.step = "map"]
    /\ UNCHANGED <<document_map, call, result, searcher>>
    /\ UNCHANGED <<chunkVars, batchVars, indexVars, rerankVars>>

\* a search is entered: query_terms, scores = {}, and the iterator of
\* self._keyword_index.items(), which remembers the dict's size
SearchBegin ==
    /\ searcher = None
    /\ \E query \in Queries, k \in 1..MaxK :
          searcher' = [query |-> query, k |-> k, pc |-> "iter",
                       used |-> Len(keyword_index), pos |-> 0,
                       scores |-> <<>>, hits |-> <<>>, docs |-> <<>>, error |-> "",
                       gens |-> IF adder = None
                                THEN {<<keyword_index, document_map>>}
                                ELSE {<<adder.pre_index, adder.pre_map>>,
                                      GenerationAfter(adder.pre_index, adder.pre_map,
                                                      adder.docs)},
                       adds |-> IF adder = None THEN 0 ELSE 1]
    /\ UNCHANGED <<keyword_index, document_map, call, result, adder>>
    /\ UNCHANGED <<chunkVars, batchVars, indexVars, rerankVars>>

\* one step of `for doc_id, doc_info in self._keyword_index.items()`: the iterator
\* raises RuntimeError when the dict's size is not the one it remembers; otherwise it
\* yields the next entry, whose score is taken, or the loop ends and the hits are
\* sorted and cut
SearchNext ==
    /\ searcher # None
    /\ searcher.pc = "iter"
    /\ searcher' =
          IF Len(keyword_index) # searcher.used
          THEN [searcher EXCEPT !.pc = "done", !.error = "RuntimeError"]
          ELSE IF searcher.pos < searcher.used
          THEN LET entry == keyword_index[searcher.pos + 1]
                   score == KeywordScore(entry[2], Terms(searcher.query))
               IN [searcher EXCEPT
                      !.pos = @ + 1,
                      !.scores = IF score > 0 THEN Append(@, <<entry[1], score>>) ELSE @]
          ELSE [searcher EXCEPT
                   !.pc = "resolve", !.pos = 0,
                   !.hits = FirstN(FirstN(SortedDesc(searcher.scores), searcher.k * 2),
                                   searcher.k)]
    /\ UNCHANGED <<keyword_index, document_map, call, result, adder>>
    /\ UNCHANGED <<chunkVars, batchVars, indexVars, rerankVars>>

\* one step of `for doc_id, _ in sorted_ids[:k]: if doc_id in self._document_map`,
\* or the return after the last one
SearchResolve ==
    /\ searcher # None
    /\ searcher.pc = "resolve"
    /\ searcher' =
          IF searcher.pos < Len(searcher.hits)
          THEN LET doc_id == searcher.hits[searcher.pos + 1][1]
               IN [searcher EXCEPT
                      !.pos = @ + 1,
                      !.docs = IF doc_id \in DOMAIN document_map
                               THEN Append(@, document_map[doc_id]) ELSE @]
          ELSE [searcher EXCEPT !.pc = "done"]
    /\ UNCHANGED <<keyword_index, document_map, call, result, adder>>
    /\ UNCHANGED <<chunkVars, batchVars, indexVars, rerankVars>>

\* the caller takes the search's outcome
SearchReturn ==
    /\ searcher # None
    /\ searcher.pc = "done"
    /\ searcher' = None
    /\ UNCHANGED <<keyword_index, document_map, call, result, adder>>
    /\ UNCHANGED <<chunkVars, batchVars, indexVars, rerankVars>>

ConcNext ==
    \/ AddBegin \/ AddMapWrite \/ AddIndexWrite
    \/ SearchBegin \/ SearchNext \/ SearchResolve \/ SearchReturn

SpecConc == ConcInit /\ [][ConcNext]_vars

\* -------------------------------------------------------- SpecConc: claims
\* C13: a search that ran while add_documents ran completes without error, and what
\* it read is what one generation holds: its outcome is the outcome of the search
\* run alone either before or after an add_documents call.
C13_SearchSeesOneGeneration ==
    (searcher # None /\ searcher.pc = "done")
    => /\ searcher.error = ""
       /\ \E g \in searcher.gens :
             searcher.docs = AtomicSearch(g[1], g[2], searcher.query, searcher.k)

=============================================================================
